---- MODULE Spec2Model ----
(***************************************************************************)
(* A model of the Pollen agent: the hive client (pollen-consensus), the    *)
(* token ledger (pollen-economics) and the Pollen facade that owns both.   *)
(* Strings the code computes on (JSON text, base64 text, decimal balances) *)
(* are sequences of one-character strings, so that the conversions are     *)
(* computed and not assumed.                                               *)
(***************************************************************************)
EXTENDS Integers, Sequences, FiniteSets, TLC

VARIABLES
    config,     \* HiveClient.config.stakedMINE of each user's client
    ws,         \* HiveClient.ws: 0 is null, n > 0 the n-th WebSocket constructed
    hexCell,    \* HiveClient.hexCell: <<>> is null, <<cell>> a HexCell
    neighbors,  \* HiveClient.neighbors: a sequence of Neighbor records
    calls,      \* activate() calls in flight on the client, by the await they are suspended at
    sockets,    \* number of WebSockets constructed so far (the code closes none)
    sent,       \* the messages handed to WebSocket.send, in order, each with its socket
    now,        \* the clock read by new Date() and Date.now()
    balance,    \* TokenEconomics.balance of each user's ledger
    credited,   \* the MINE earnMINE has credited to each user's ledger so far
    burned,     \* the MINE convertMineToWell has burned from each user's ledger so far
    sessions,   \* the startTherapy calls each user's Pollen instance has completed
    ballots,    \* consensus engine: the stored ballot of each (proposal, voter), <<>> if none
    delivered,  \* consensus engine: the indices in sent of the messages it has received
    records,    \* membership directory: status and lastHeartbeat of each identity, <<>> if none
    proposals,  \* consensus engine: the record of each proposal, <<>> if it was never opened
    history,    \* the readings PredictionEngine.forecast is called with
    lastCall    \* the last completed call: its inputs, what it saw and what it returned

vars == <<config, ws, hexCell, neighbors, calls, sockets, sent, now, balance, credited,
          burned, sessions, ballots, delivered, records, proposals, history, lastCall>>

hiveVars == <<config, ws, hexCell, neighbors, calls, sockets, records>>

ledgerVars == <<balance, credited, burned, sessions>>

engineVars == <<ballots, delivered, proposals>>

(***************************************************************************)
(* Bounds of the model and the inputs the operations are called with.      *)
(***************************************************************************)
MaxSockets == 2
MaxInflight == 2
MaxSent == 2
MaxShared == 1
MaxClock == 1
MaxSweepClock == 2
MaxMine == 200

\* "0x0" is also the userId of the first record discoverNeighbors fabricates.
Users == {"0x0", "alice"}

StakeInputs == {0, 100}
WeightInputs == {100}
Choices == {"for", "against", "abstain"}
Proposals == {"p1"}
ScoreInputs == {49, 50, 80}
AllScores == {0, 7, 49, 50, 79, 80, 100}
ActivityInputs == {"rest", "active"}
MoodInputs == {"up"}
Topics == {"budget"}

AllStates ==
    [wellnessScore : AllScores, activityLevel : ActivityInputs, moodTrend : MoodInputs]
ValuePointInputs == {10, 20}
ConvertInputs == {50, 100, 150}
StakeAmountInputs == {100}
LockPeriodInputs == {7, 30, 31}

(***************************************************************************)
(* Text: characters, decimal numbers, JSON.stringify, base64.              *)
(***************************************************************************)
\* The printable ASCII characters in code order, from 32 (space) to 126 (~).
Printable ==
    <<" ", "!", "\"", "#", "$", "%", "&", "'", "(", ")", "*", "+", ",", "-", ".", "/",
      "0", "1", "2", "3", "4", "5", "6", "7", "8", "9", ":", ";", "<", "=", ">", "?",
      "@", "A", "B", "C", "D", "E", "F", "G", "H", "I", "J", "K", "L", "M", "N", "O",
      "P", "Q", "R", "S", "T", "U", "V", "W", "X", "Y", "Z", "[", "\\", "]", "^", "_",
      "backtick", "a", "b", "c", "d", "e", "f", "g", "h", "i", "j", "k", "l", "m", "n", "o",
      "p", "q", "r", "s", "t", "u", "v", "w", "x", "y", "z", "{", "|", "}", "~">>

AsciiCode ==
    [c \in {Printable[i] : i \in 1..Len(Printable)} |->
        31 + (CHOOSE i \in 1..Len(Printable) : Printable[i] = c)]

CharCode(c) == AsciiCode[c]

Base64Alphabet ==
    <<"A", "B", "C", "D", "E", "F", "G", "H", "I", "J", "K", "L", "M", "N", "O", "P",
      "Q", "R", "S", "T", "U", "V", "W", "X", "Y", "Z", "a", "b", "c", "d", "e", "f",
      "g", "h", "i", "j", "k", "l", "m", "n", "o", "p", "q", "r", "s", "t", "u", "v",
      "w", "x", "y", "z", "0", "1", "2", "3", "4", "5", "6", "7", "8", "9", "+", "/">>

Sextet(n) == Base64Alphabet[n + 1]

Min(a, b) == IF a <= b THEN a ELSE b

\* Number.prototype.toString / BigInt.prototype.toString of an integer.
RECURSIVE DigitsOf(_)
DigitsOf(n) ==
    IF n < 10 THEN <<Printable[17 + n]>>
    ELSE DigitsOf(n \div 10) \o <<Printable[17 + (n % 10)]>>

DecimalString(n) == IF n < 0 THEN <<"-">> \o DigitsOf(0 - n) ELSE DigitsOf(n)

\* BigInt(s) of a decimal string.
RECURSIVE ParseDigits(_)
ParseDigits(s) ==
    IF s = <<>> THEN 0
    ELSE 10 * ParseDigits(SubSeq(s, 1, Len(s) - 1)) + (CharCode(s[Len(s)]) - 48)

BigInt(s) == IF s[1] = "-" THEN 0 - ParseDigits(Tail(s)) ELSE ParseDigits(s)

\* The characters of a TLA+ string constant the model uses as a JS string.
Chars(str) ==
    CASE str = "rest" -> <<"r", "e", "s", "t">>
      [] str = "active" -> <<"a", "c", "t", "i", "v", "e">>
      [] str = "up" -> <<"u", "p">>
      [] str = "down" -> <<"d", "o", "w", "n">>
      [] str = "wellnessScore" -> <<"w", "e", "l", "l", "n", "e", "s", "s", "S", "c", "o", "r", "e">>
      [] str = "activityLevel" -> <<"a", "c", "t", "i", "v", "i", "t", "y", "L", "e", "v", "e", "l">>
      [] str = "moodTrend" -> <<"m", "o", "o", "d", "T", "r", "e", "n", "d">>

Quoted(str) == <<"\"">> \o Chars(str) \o <<"\"">>

\* JSON.stringify of the object sharePheromone is given, its properties in
\* the order of the declared shape of the parameter.
JsonStringify(state) ==
    <<"{">> \o Quoted("wellnessScore") \o <<":">> \o DecimalString(state.wellnessScore)
      \o <<",">> \o Quoted("activityLevel") \o <<":">> \o Quoted(state.activityLevel)
      \o <<",">> \o Quoted("moodTrend") \o <<":">> \o Quoted(state.moodTrend)
      \o <<"}">>

\* Buffer.from(text).toString('base64'): three bytes give four characters,
\* a last group of one or two bytes is padded with "=".
RECURSIVE Base64(_)
Base64(text) ==
    IF text = <<>> THEN <<>>
    ELSE IF Len(text) = 1 THEN
        LET a == CharCode(text[1])
        IN  <<Sextet(a \div 4), Sextet((a % 4) * 16), "=", "=">>
    ELSE IF Len(text) = 2 THEN
        LET a == CharCode(text[1])
            b == CharCode(text[2])
        IN  <<Sextet(a \div 4), Sextet((a % 4) * 16 + b \div 16), Sextet((b % 16) * 4), "=">>
    ELSE
        LET a == CharCode(text[1])
            b == CharCode(text[2])
            c == CharCode(text[3])
        IN  <<Sextet(a \div 4), Sextet((a % 4) * 16 + b \div 16),
              Sextet((b % 16) * 4 + c \div 64), Sextet(c % 64)>>
            \o Base64(SubSeq(text, 4, Len(text)))

\* String.prototype.slice(0, n).
SliceTo(s, n) == SubSeq(s, 1, Min(n, Len(s)))

(***************************************************************************)
(* HiveClient (pollen-consensus/hive/client.ts).                           *)
(***************************************************************************)
\* Math.floor(Math.random() * 100) lies in 0 .. RandomRange - 1; the model
\* draws the two ends of that range.
RandomRange == 100

RandomCoords == {0, RandomRange - 1}

Positions == [x : RandomCoords, y : RandomCoords]

\* new HexCell({userId, position, votingPower}): the fields it is given, and
\* an id that names the cell.
HexCell(userId, position, votingPower) ==
    [id |-> <<"cell", userId, position.x, position.y>>,
     userId |-> userId,
     position |-> position,
     votingPower |-> votingPower]

\* private claimPosition(): any pair of random coordinates; the occupancy of
\* the mesh is not consulted.
claimPosition == Positions

NeighborCount == 6

NeighborUserIds == <<"0x0", "0x1", "0x2", "0x3", "0x4", "0x5">>

\* private discoverNeighbors(): six fabricated records. The distance field
\* (Math.random() * 10) is left out: nothing reads it.
discoverNeighbors ==
    [i \in 1..NeighborCount |->
        [id |-> <<"neighbor", i - 1>>,
         userId |-> NeighborUserIds[i],
         hexCellId |-> <<"hex", i - 1>>,
         lastPheromone |-> <<>>]]

\* The buckets of a client that compares with > where the code has >=.
rangeBucketExclusive(score) ==
    IF score > 80 THEN "high"
    ELSE IF score > 50 THEN "medium"
    ELSE "low"

\* private rangeBucket(score).
rangeBucket(score) ==
    IF score >= 80 THEN "high"
    ELSE IF score >= 50 THEN "medium"
    ELSE "low"

HashLength == 16

\* hashState without its slice(0, 16): the whole base64 text of the state.
hashStateUntruncated(state) == Base64(JsonStringify(state))

\* private hashState(state): the first 16 characters of the base64 text of
\* the JSON text of the state.
hashState(state) == SliceTo(Base64(JsonStringify(state)), HashLength)

\* hashState of every state the model passes to sharePheromone, computed once.
hashStateOf ==
    LET table == [state \in AllStates |-> hashState(state)]
    IN  table @@ table

\* this.ws?.send(message): nothing is sent through a null socket.
Send(socket, log, message) ==
    IF socket = 0 THEN log ELSE Append(log, [socket |-> socket, message |-> message])

\* `if (!this.hexCell) throw` of submitVote.
NotActivated(cell) == cell = <<>>

\* The VOTE message of submitVote.
VoteMessage(userId, cell, vote) ==
    [type |-> "VOTE", userId |-> userId, hexCell |-> cell.id, vote |-> vote]

\* The PHEROMONE message of sharePheromone; this.hexCell?.id is undefined
\* (here <<>>) while the client has no cell.
PheromoneMessage(cell, state, time) ==
    [type |-> "PHEROMONE",
     pheromone |->
        [id |-> hashStateOf[state],
         hexCell |-> IF cell = <<>> THEN <<>> ELSE <<cell[1].id>>,
         timestamp |-> time,
         signature |-> "anonymous",
         data |-> [wellnessRange |-> rangeBucket(state.wellnessScore),
                   activity |-> state.activityLevel,
                   mood |-> state.moodTrend]]]

Inflight(u) == calls[u].claimPosition + calls[u].discoverNeighbors

\* An activate() that calls claimPosition() and leaves the socket for later.
ActivateBeginWithoutSocket(u) ==
    /\ Inflight(u) < MaxInflight
    /\ calls' = [calls EXCEPT ![u].claimPosition = @ + 1]
    /\ UNCHANGED <<config, ws, sockets, hexCell, neighbors, records, sent, now, ledgerVars,
                   lastCall, engineVars, history>>

\* activate() up to its first await: the socket is constructed and
\* claimPosition() is called.
ActivateBegin(u) ==
    /\ Inflight(u) < MaxInflight
    /\ sockets < MaxSockets
    /\ sockets' = sockets + 1
    /\ ws' = [ws EXCEPT ![u] = sockets + 1]
    /\ calls' = [calls EXCEPT ![u].claimPosition = @ + 1]
    /\ UNCHANGED <<config, hexCell, neighbors, records, sent, now, ledgerVars, lastCall,
                   engineVars, history>>

\* The record the membership directory keeps of an identity that registers
\* or sends a heartbeat now.
MembershipRecord == [status |-> "Active", lastHeartbeat |-> now]

\* activate() from the position it awaited to its second await: the cell is
\* constructed and stored, discoverNeighbors() is called. The identity holds
\* an Active record from here on.
ActivateRegister(u, position) ==
    /\ calls[u].claimPosition > 0
    /\ position \in claimPosition
    /\ hexCell' = [hexCell EXCEPT ![u] = <<HexCell(u, position, config[u])>>]
    /\ records' = [records EXCEPT ![u] = <<MembershipRecord>>]
    /\ calls' = [calls EXCEPT ![u].claimPosition = @ - 1, ![u].discoverNeighbors = @ + 1]
    /\ UNCHANGED <<config, ws, neighbors, sockets, sent, now, ledgerVars, lastCall, engineVars, history>>

\* activate() from the neighbors it awaited to its return.
ActivateReturn(u) ==
    /\ calls[u].discoverNeighbors > 0
    /\ neighbors' = [neighbors EXCEPT ![u] = discoverNeighbors]
    /\ calls' = [calls EXCEPT ![u].discoverNeighbors = @ - 1]
    /\ lastCall' = [op |-> "activate", userId |-> u, outcome |-> "ok",
                    result |-> hexCell[u][1]]
    /\ UNCHANGED <<config, ws, hexCell, sockets, records, sent, now, ledgerVars, engineVars, history>>

\* submitVote written the way sharePheromone is: no activation check, the
\* cell read with this.hexCell?.id.
SubmitVoteUnchecked(u, vote) ==
    /\ Len(sent) < MaxSent
    /\ sent' = Send(ws[u], sent,
                    VoteMessage(u, IF hexCell[u] = <<>> THEN [id |-> <<>>] ELSE hexCell[u][1], vote))
    /\ lastCall' = [op |-> "submitVote", userId |-> u, vote |-> vote,
                    activated |-> hexCell[u] # <<>>, cell |-> hexCell[u],
                    socket |-> ws[u],
                    outcome |-> "ok", sends |-> Len(sent') - Len(sent)]
    /\ UNCHANGED <<hiveVars, now, ledgerVars, engineVars, history>>

\* submitVote(vote).
SubmitVote(u, vote) ==
    IF NotActivated(hexCell[u])
    THEN /\ lastCall' = [op |-> "submitVote", userId |-> u, vote |-> vote,
                         activated |-> hexCell[u] # <<>>, cell |-> hexCell[u],
                    socket |-> ws[u],
                         outcome |-> "error", sends |-> 0]
         /\ UNCHANGED <<hiveVars, sent, now, ledgerVars, engineVars, history>>
    ELSE /\ Len(sent) < MaxSent
         /\ sent' = Send(ws[u], sent, VoteMessage(u, hexCell[u][1], vote))
         /\ lastCall' = [op |-> "submitVote", userId |-> u, vote |-> vote,
                         activated |-> hexCell[u] # <<>>, cell |-> hexCell[u],
                    socket |-> ws[u],
                         outcome |-> "ok", sends |-> Len(sent') - Len(sent)]
         /\ UNCHANGED <<hiveVars, now, ledgerVars, engineVars, history>>

\* sharePheromone(state).
SharePheromone(u, state) ==
    /\ Cardinality({i \in 1..Len(sent) : sent[i].message.type = "PHEROMONE"}) < MaxShared
    /\ sent' = Send(ws[u], sent, PheromoneMessage(hexCell[u], state, now))
    /\ lastCall' = [op |-> "sharePheromone", userId |-> u, state |-> state,
                    activated |-> hexCell[u] # <<>>, cell |-> hexCell[u],
                    socket |-> ws[u],
                    outcome |-> "ok", sends |-> Len(sent') - Len(sent)]
    /\ UNCHANGED <<hiveVars, now, ledgerVars, engineVars, history>>

\* pathfindSimilar(targetPattern): the neighbor records whose lastPheromone
\* carries the pattern as its wellnessRange.
PathfindSimilar(u, targetPattern) ==
    LET Similar(n) ==
            /\ n.lastPheromone # <<>>
            /\ n.lastPheromone[1].data.wellnessRange = targetPattern
    IN  /\ lastCall' = [op |-> "pathfindSimilar", userId |-> u, pattern |-> targetPattern,
                        time |-> now, neighbors |-> neighbors[u], outcome |-> "ok",
                        result |-> SelectSeq(neighbors[u], Similar)]
        /\ UNCHANGED <<hiveVars, sent, now, ledgerVars, engineVars, history>>

\* Time passes, up to a limit.
TickUntil(limit) ==
    /\ now < limit
    /\ now' = now + 1
    /\ UNCHANGED <<hiveVars, sent, ledgerVars, lastCall, engineVars, history>>

Tick == TickUntil(MaxClock)

Votes == [topic : Topics, proposal : Proposals, choice : Choices, weight : WeightInputs]

PheromoneStates ==
    [wellnessScore : ScoreInputs, activityLevel : ActivityInputs, moodTrend : MoodInputs]

(***************************************************************************)
(* TokenEconomics (pollen-economics/tokens/economics.ts).                  *)
(***************************************************************************)
CONVERSION_RATIO == 100

\* The rate of a ledger that credits half as much.
MinePerValuePointHalved == 10 \div 2

MinePerValuePoint == 10

minConversion == 100

VotingLockDays == 30

\* A JS Number the ledger is handed: the fraction num / den, with den a power
\* of two so that the Number holds it exactly.
Whole(n) == [num |-> n, den |-> 1]

Times(number, k) == [num |-> number.num * k, den |-> number.den]

\* NaN, the Number that is no fraction.
NaN == [num |-> 0, den |-> 0]

IsNaN(number) == number.den = 0

\* Number.isInteger.
IsInteger(number) == ~IsNaN(number) /\ number.num % number.den = 0

\* BigInt(number) of a Number that is an integer; of any other Number it
\* throws a RangeError.
BigIntOf(number) == number.num \div number.den

\* earnMINE(activity): the record is built first, the balance is assigned
\* last, and BigInt(mineAmount) throws in between when mineAmount is not an
\* integer.
EarnMINE(u, type, valuePoints) ==
    LET mineAmount == Times(valuePoints, MinePerValuePoint)
        record == [id |-> <<"earn", now>>,
                   userId |-> u,
                   activity |-> type,
                   valuePoints |-> valuePoints,
                   mineEarned |-> DecimalString(BigIntOf(mineAmount)),
                   timestamp |-> now,
                   txHash |-> <<>>]
    IN  IF ~IsInteger(mineAmount)
        THEN /\ lastCall' = [op |-> "earnMINE", userId |-> u, valuePoints |-> valuePoints,
                             outcome |-> "error"]
             /\ UNCHANGED <<hiveVars, sent, now, ledgerVars, engineVars, history>>
        ELSE /\ balance' = [balance EXCEPT
                    ![u].mine = DecimalString(BigInt(balance[u].mine) + BigIntOf(mineAmount))]
             /\ credited' = [credited EXCEPT ![u] = @ + BigIntOf(mineAmount)]
             /\ lastCall' = [op |-> "earnMINE", userId |-> u, valuePoints |-> valuePoints,
                             outcome |-> "ok", result |-> record]
             /\ UNCHANGED <<hiveVars, sent, now, burned, sessions, engineVars, history>>

\* A conversion that burns before it checks, and so burns when it throws.
ConvertMineToWellBurningFirst(u, mineAmount) ==
    /\ balance' = [balance EXCEPT
            ![u].mine = DecimalString(BigInt(balance[u].mine) - mineAmount)]
    /\ burned' = [burned EXCEPT ![u] = @ + mineAmount]
    /\ lastCall' = [op |-> "convertMineToWell", userId |-> u, amount |-> mineAmount,
                    outcome |-> IF mineAmount < minConversion \/ BigInt(balance[u].mine) < mineAmount
                                THEN "error" ELSE "ok"]
    /\ UNCHANGED <<hiveVars, sent, now, credited, sessions, engineVars, history>>

\* convertMineToWell(mineAmount).
ConvertMineToWell(u, mineAmount) ==
    IF mineAmount < minConversion \/ BigInt(balance[u].mine) < mineAmount
    THEN /\ lastCall' = [op |-> "convertMineToWell", userId |-> u, amount |-> mineAmount,
                         outcome |-> "error"]
         /\ UNCHANGED <<hiveVars, sent, now, ledgerVars, engineVars, history>>
    ELSE LET wellAmount == mineAmount \div CONVERSION_RATIO
         IN  /\ balance' = [balance EXCEPT
                    ![u].mine = DecimalString(BigInt(balance[u].mine) - mineAmount),
                    ![u].well = DecimalString(BigInt(balance[u].well) + wellAmount)]
             /\ lastCall' = [op |-> "convertMineToWell", userId |-> u, amount |-> mineAmount,
                             outcome |-> "ok",
                             result |-> [mineBurned |-> DecimalString(mineAmount),
                                         wellReceived |-> DecimalString(wellAmount)]]
             /\ burned' = [burned EXCEPT ![u] = @ + mineAmount]
             /\ UNCHANGED <<hiveVars, sent, now, credited, sessions, engineVars, history>>

\* A stake that adds to the stake and leaves the available MINE.
StakeMINEKeepingAvailable(u, amount, lockPeriodDays) ==
    LET staked == DecimalString(BigInt(balance[u].staked) + amount)
    IN  /\ balance' = [balance EXCEPT
               ![u].staked = staked,
               ![u].votingPower = IF lockPeriodDays >= VotingLockDays THEN staked ELSE @]
        /\ lastCall' = [op |-> "stakeMINE", userId |-> u, amount |-> amount,
                        days |-> lockPeriodDays,
                        outcome |-> IF BigInt(balance[u].mine) < amount THEN "error" ELSE "ok"]
        /\ UNCHANGED <<hiveVars, sent, now, credited, burned, sessions, engineVars, history>>

\* A stake whose long lock adds the whole stake to the voting power.
StakeMINEAddingPower(u, amount, lockPeriodDays) ==
    IF BigInt(balance[u].mine) < amount
    THEN /\ lastCall' = [op |-> "stakeMINE", userId |-> u, amount |-> amount,
                         days |-> lockPeriodDays, outcome |-> "error"]
         /\ UNCHANGED <<hiveVars, sent, now, ledgerVars, engineVars, history>>
    ELSE LET staked == BigInt(balance[u].staked) + amount
         IN  /\ balance' = [balance EXCEPT
                    ![u].mine = DecimalString(BigInt(balance[u].mine) - amount),
                    ![u].staked = DecimalString(staked),
                    ![u].votingPower = IF lockPeriodDays >= VotingLockDays
                                       THEN DecimalString(BigInt(@) + staked) ELSE @]
             /\ lastCall' = [op |-> "stakeMINE", userId |-> u, amount |-> amount,
                             days |-> lockPeriodDays, outcome |-> "ok"]
             /\ UNCHANGED <<hiveVars, sent, now, credited, burned, sessions, engineVars, history>>

\* stakeMINE(amount, lockPeriodDays).
StakeMINE(u, amount, lockPeriodDays) ==
    IF BigInt(balance[u].mine) < amount
    THEN /\ lastCall' = [op |-> "stakeMINE", userId |-> u, amount |-> amount,
                         days |-> lockPeriodDays, outcome |-> "error"]
         /\ UNCHANGED <<hiveVars, sent, now, ledgerVars, engineVars, history>>
    ELSE LET staked == DecimalString(BigInt(balance[u].staked) + amount)
         IN  /\ balance' = [balance EXCEPT
                    ![u].mine = DecimalString(BigInt(balance[u].mine) - amount),
                    ![u].staked = staked,
                    ![u].votingPower = IF lockPeriodDays >= VotingLockDays THEN staked ELSE @]
             /\ lastCall' = [op |-> "stakeMINE", userId |-> u, amount |-> amount,
                             days |-> lockPeriodDays, outcome |-> "ok"]
             /\ UNCHANGED <<hiveVars, sent, now, credited, burned, sessions, engineVars, history>>

\* getBalance(): a copy of the balance.
getBalance(u) == balance[u]

MembershipThreshold == 1000

\* The test of a ledger that counts the available MINE only.
isCooperativeMemberByAvailable(ledger) == BigInt(ledger.mine) >= MembershipThreshold

\* The test of a ledger that counts the staked MINE only.
isCooperativeMemberByStake(ledger) == BigInt(ledger.staked) >= MembershipThreshold

\* isCooperativeMember() of a ledger with the given balance.
isCooperativeMember(ledger) ==
    LET total == BigInt(ledger.mine) + BigInt(ledger.staked)
    IN  total >= MembershipThreshold

\* A call of isCooperativeMember().
IsCooperativeMember(u) ==
    /\ lastCall' = [op |-> "isCooperativeMember", userId |-> u, outcome |-> "ok",
                    result |-> isCooperativeMember(balance[u])]
    /\ UNCHANGED <<hiveVars, sent, now, ledgerVars, engineVars, history>>

(***************************************************************************)
(* PredictionEngine (pollen-core/prediction/engine.ts). Its Numbers are    *)
(* fractions; the readings of the model are multiples of 35, for which the *)
(* averages over 7 and 14 readings and the trend are multiples of 1/2 and  *)
(* the floating-point results are these fractions exactly.                 *)
(***************************************************************************)
Plus(a, b) ==
    IF IsNaN(a) \/ IsNaN(b) THEN NaN
    ELSE [num |-> a.num * b.den + b.num * a.den, den |-> a.den * b.den]

Minus(a, b) ==
    IF IsNaN(a) \/ IsNaN(b) THEN NaN
    ELSE [num |-> a.num * b.den - b.num * a.den, den |-> a.den * b.den]

DividedBy(a, k) == IF IsNaN(a) THEN NaN ELSE [num |-> a.num, den |-> a.den * k]

\* a < b, false when either is NaN.
Less(a, b) == ~IsNaN(a) /\ ~IsNaN(b) /\ a.num * b.den < b.num * a.den

\* Math.round: the nearest integer, a half rounded up; NaN stays NaN.
MathRound(a) == IF IsNaN(a) THEN NaN ELSE Whole((2 * a.num + a.den) \div (2 * a.den))

\* Math.min and Math.max: NaN when either argument is NaN.
MathMin(a, b) == IF IsNaN(a) \/ IsNaN(b) THEN NaN ELSE IF Less(b, a) THEN b ELSE a

MathMax(a, b) == IF IsNaN(a) \/ IsNaN(b) THEN NaN ELSE IF Less(a, b) THEN b ELSE a

\* data.reduce((sum, d) => sum + value(d), 0) over a sequence of values.
RECURSIVE SumOf(_)
SumOf(values) ==
    IF values = <<>> THEN Whole(0)
    ELSE Plus(SumOf(SubSeq(values, 1, Len(values) - 1)), values[Len(values)])

\* Array.prototype.slice(-n).
SliceLast(data, n) == SubSeq(data, IF Len(data) > n THEN Len(data) - n + 1 ELSE 1, Len(data))

Rmssd(data) == [i \in 1..Len(data) |-> data[i].hrv.rmssd]

SleepQuality(data) == [i \in 1..Len(data) |-> data[i].sleep.quality]

Mood(data) == [i \in 1..Len(data) |-> data[i].mood]

\* private calculateTrend(data).
calculateTrend(data) ==
    LET first == SliceTo(data, 7)
        last == SliceLast(data, 7)
        firstAvg == DividedBy(SumOf(Rmssd(first)), 7)
        lastAvg == DividedBy(SumOf(Rmssd(last)), 7)
    IN  DividedBy(Minus(lastAvg, firstAvg), 10)

\* private identifyFactors(data).
identifyFactors(data) ==
    LET avgSleep == DividedBy(SumOf(SleepQuality(data)), Len(data))
        avgHrv == DividedBy(SumOf(Rmssd(data)), Len(data))
        avgMood == DividedBy(SumOf(Mood(data)), Len(data))
        factors == (IF Less(avgSleep, Whole(70)) THEN <<"Poor sleep quality">> ELSE <<>>)
                   \o (IF Less(avgHrv, Whole(30)) THEN <<"Low HRV">> ELSE <<>>)
                   \o (IF Less(avgMood, Whole(5)) THEN <<"Low mood scores">> ELSE <<>>)
    IN  IF Len(factors) = 0 THEN <<"Stable baseline">> ELSE factors

Includes(factors, factor) == \E i \in 1..Len(factors) : factors[i] = factor

\* private generateRecommendation(factors, forecast).
generateRecommendation(factors, dailyForecast) ==
    IF Less(dailyForecast[1], Whole(40))
    THEN "Consider 0.1 Hz breathing protocol and early rest"
    ELSE IF Includes(factors, "Poor sleep quality")
    THEN "Prioritize sleep hygiene, limit screens after 8pm"
    ELSE IF Includes(factors, "Low HRV")
    THEN "Schedule frequency therapy session"
    ELSE "Maintain current wellness practices"

ForecastDays == 7

MinReadings == 14

\* Math.max(0, Math.min(100, Math.round(dayPrediction))).
DayForecast(dayPrediction) == MathMax(Whole(0), MathMin(Whole(100), MathRound(dayPrediction)))

\* forecast(history) called at the given time.
forecast(readings, time) ==
    IF Len(readings) < MinReadings
    THEN [timestamp |-> time,
          target |-> "wellness",
          forecast |-> [i \in 1..ForecastDays |-> Whole(50)],
          confidence |-> [num |-> 3, den |-> 10],
          factors |-> <<"Insufficient data">>,
          recommendation |-> "Continue logging biometrics for better predictions"]
    ELSE LET recent == SliceLast(readings, 14)
             trend == calculateTrend(recent)
             dailyForecast ==
                 [i \in 1..ForecastDays |-> DayForecast(Plus(Whole(50), Times(trend, i)))]
             factors == identifyFactors(recent)
             confidence == MathMin([num |-> 95, den |-> 100],
                                   Plus([num |-> 1, den |-> 2], [num |-> Len(readings), den |-> 100]))
         IN  [timestamp |-> time,
              target |-> "wellness",
              forecast |-> dailyForecast,
              confidence |-> confidence,
              factors |-> factors,
              recommendation |-> generateRecommendation(factors, dailyForecast)]

\* A call of forecast(history).
Forecast(u) ==
    /\ lastCall' = [op |-> "forecast", userId |-> u, outcome |-> "ok",
                    result |-> forecast(history, now)]
    /\ UNCHANGED <<hiveVars, sent, now, ledgerVars, engineVars, history>>

(***************************************************************************)
(* FrequencyTherapy (pollen-core/prediction/engine.ts).                    *)
(***************************************************************************)
TherapyTypes == {"relaxation", "focus", "recovery", "sleep"}

\* generateProfile(target, hrvBaseline); frequencies in hundredths of a hertz,
\* durations in seconds.
generateProfile(target, hrvBaseline) ==
    CASE target = "relaxation" ->
            [fundamental |-> 783, harmonics |-> <<1430>>, duration |-> 600,
             waveform |-> "sine"]
      [] target = "focus" ->
            [fundamental |-> 4000, harmonics |-> <<8000>>, duration |-> 1200,
             waveform |-> "binaural"]
      [] target = "recovery" ->
            [fundamental |-> 10, harmonics |-> <<20, 30>>, duration |-> 300,
             waveform |-> "sine"]
      [] target = "sleep" ->
            [fundamental |-> 200, harmonics |-> <<400>>, duration |-> 1800,
             waveform |-> "binaural"]
      [] OTHER ->
            [fundamental |-> 783, harmonics |-> <<1430, 2080>>, duration |-> 600,
             waveform |-> "sine"]

(***************************************************************************)
(* Pollen, the facade (pollen.ts).                                         *)
(***************************************************************************)
HrvBaseline == 40

\* The value points of a facade that pays a therapy as a hive vote is paid.
TherapyValuePointsOfHiveVote == 2 * 5

TherapyValuePoints == 20

\* startTherapy(type): the profile, then earnMINE for a completed therapy,
\* then the frequency and the duration of the profile.
StartTherapy(u, type) ==
    LET profile == generateProfile(type, HrvBaseline)
        mineAmount == TherapyValuePoints * MinePerValuePoint
    IN  /\ balance' = [balance EXCEPT
                ![u].mine = DecimalString(BigInt(balance[u].mine) + mineAmount)]
        /\ credited' = [credited EXCEPT ![u] = @ + mineAmount]
        /\ sessions' = [sessions EXCEPT ![u] = @ + 1]
        /\ lastCall' = [op |-> "startTherapy", userId |-> u, type |-> type, outcome |-> "ok",
                        result |-> [frequency |-> profile.fundamental,
                                    duration |-> profile.duration]]
        /\ UNCHANGED <<hiveVars, sent, now, burned, engineVars, history>>

\* The score of a BiometricAnalyzer that has no reading.
EmptyWellnessScore == 50

\* getForecast(): the forecast of an empty history, with the wellness score
\* of the analyzer, which no method of the facade hands a reading.
GetForecast(u) ==
    LET prediction == forecast(<<>>, now)
    IN  /\ lastCall' = [op |-> "getForecast", userId |-> u, outcome |-> "ok",
                        result |-> [score |-> EmptyWellnessScore,
                                    forecast |-> prediction.forecast,
                                    recommendation |-> prediction.recommendation]]
        /\ UNCHANGED <<hiveVars, sent, now, ledgerVars, engineVars, history>>

\* getBalance() of the facade: mine, well and staked of the ledger's copy.
GetBalance(u) ==
    LET ledger == getBalance(u)
    IN  /\ lastCall' = [op |-> "getBalance", userId |-> u, outcome |-> "ok",
                        result |-> [mine |-> ledger.mine, well |-> ledger.well,
                                    staked |-> ledger.staked]]
        /\ UNCHANGED <<hiveVars, sent, now, ledgerVars, engineVars, history>>

\* activateHive(config) up to the first await of the activate() it calls: a
\* new HiveClient replaces this.hive, and with it the calls in flight on the
\* client it replaces.
ActivateHive(u, stakedMINE) ==
    /\ sockets < MaxSockets
    /\ config' = [config EXCEPT ![u] = stakedMINE]
    /\ hexCell' = [hexCell EXCEPT ![u] = <<>>]
    /\ neighbors' = [neighbors EXCEPT ![u] = <<>>]
    /\ sockets' = sockets + 1
    /\ ws' = [ws EXCEPT ![u] = sockets + 1]
    /\ calls' = [calls EXCEPT ![u] = [claimPosition |-> 1, discoverNeighbors |-> 0]]
    /\ UNCHANGED <<records, sent, now, ledgerVars, lastCall, engineVars, history>>

(***************************************************************************)
(* The consensus engine the VOTE messages are sent to. The repository holds *)
(* its caller (submitVote) and its types (Vote, ConsensusResult) only; the *)
(* engine is modelled from section 4.4 of the specification.               *)
(***************************************************************************)
\* castBallot(proposalId, identity, choice): one ballot per (proposal,
\* voter); a later ballot replaces the earlier one.
castBallot(stored, proposalId, identity, choice) ==
    [stored EXCEPT ![proposalId][identity] = <<[voter |-> identity, choice |-> choice]>>]

\* The ballots that count in the tally of a proposal.
CountedBallots(proposalId) ==
    {ballots[proposalId][u][1] : u \in {v \in Users : ballots[proposalId][v] # <<>>}}

\* quorumThreshold as a percentage, and the closesAt of a proposal.
QuorumInputs == {60}
ClosesAtInputs == {1}

\* The voting weight of the Active record of an identity: the votingPower its
\* client registered, nothing for an identity that holds no cell.
ActiveWeight(u) == IF hexCell[u] = <<>> THEN 0 ELSE hexCell[u][1].votingPower

RECURSIVE SumWeights(_, _)
SumWeights(weight, S) ==
    IF S = {} THEN 0
    ELSE LET u == CHOOSE x \in S : TRUE
         IN  weight[u] + SumWeights(weight, S \ {u})

\* A proposal as it is created: the weights of the Active members and their
\* sum are snapshotted here.
NewProposal(quorumThreshold, closesAt) ==
    LET weightAtOpen == [u \in Users |-> ActiveWeight(u)]
    IN  [status |-> "Open",
         openedAt |-> now,
         closesAt |-> closesAt,
         quorumThreshold |-> quorumThreshold,
         weightAtOpen |-> weightAtOpen,
         totalActiveWeightAtOpen |-> SumWeights(weightAtOpen, Users)]

\* A proposal is opened.
OpenProposal(p, quorumThreshold, closesAt) ==
    /\ proposals[p] = <<>>
    /\ closesAt >= now
    /\ proposals' = [proposals EXCEPT ![p] = <<NewProposal(quorumThreshold, closesAt)>>]
    /\ UNCHANGED <<hiveVars, sent, now, ledgerVars, ballots, delivered, lastCall, history>>

\* castBallot fails with ProposalClosed on a proposal that is not open or is
\* past its closesAt, and with UnknownAgent for an identity without an Active
\* record.
AcceptsUntilClosesAt(p, identity) ==
    /\ proposals[p] # <<>>
    /\ now <= proposals[p][1].closesAt
    /\ hexCell[identity] # <<>>

Accepts(p, identity) ==
    /\ proposals[p] # <<>>
    /\ proposals[p][1].status = "Open"
    /\ now <= proposals[p][1].closesAt
    /\ hexCell[identity] # <<>>

\* The weight cast for a choice: of each voter, the weight it had when the
\* proposal was opened.
WeightFor(p, choice) ==
    SumWeights(proposals[p][1].weightAtOpen,
               {b.voter : b \in {c \in CountedBallots(p) : c.choice = choice}})

\* The tally of a proposal, in the shape of ConsensusResult.
Tally(p) ==
    [for |-> WeightFor(p, "for"),
     against |-> WeightFor(p, "against"),
     abstain |-> WeightFor(p, "abstain")]

CastWeightWithoutAbstain(tally) == tally.for + tally.against

\* totalCastWeight: abstentions count toward the turnout.
CastWeight(tally) == tally.for + tally.against + tally.abstain

OutcomeWithoutQuorum(tally, quorumThreshold, totalActiveWeightAtOpen) ==
    IF tally.for > tally.against THEN "Passed" ELSE "Rejected"

\* The transition rule: turnout = totalCastWeight / totalActiveWeightAtOpen
\* below the threshold gives Expired (compared without dividing, the threshold
\* a percentage); otherwise the larger of for and against decides, a tie
\* rejects.
Outcome(tally, quorumThreshold, totalActiveWeightAtOpen) ==
    IF CastWeight(tally) * 100 < quorumThreshold * totalActiveWeightAtOpen THEN "Expired"
    ELSE IF tally.for > tally.against THEN "Passed"
    ELSE "Rejected"

ClosedRecounted(proposal, outcome) ==
    [proposal EXCEPT !.status = outcome,
                     !.totalActiveWeightAtOpen =
                          SumWeights([u \in Users |-> ActiveWeight(u)], Users)]

\* The record of a proposal once it is closed: its status, nothing else.
Closed(proposal, outcome) == [proposal EXCEPT !.status = outcome]

\* The transition rule is evaluated at closesAt.
CloseProposal(p) ==
    /\ proposals[p] # <<>>
    /\ proposals[p][1].status = "Open"
    /\ now >= proposals[p][1].closesAt
    /\ proposals' = [proposals EXCEPT ![p] =
            <<Closed(@[1], Outcome(Tally(p), @[1].quorumThreshold,
                                   @[1].totalActiveWeightAtOpen))>>]
    /\ UNCHANGED <<hiveVars, sent, now, ledgerVars, ballots, delivered, lastCall, history>>

\* castBallot(proposalId, identity, choice) as the engine handles it: a
\* refused ballot changes nothing.
CastBallot(p, identity, choice) ==
    /\ ballots' = IF Accepts(p, identity)
                  THEN castBallot(ballots, p, identity, choice)
                  ELSE ballots
    /\ UNCHANGED <<hiveVars, sent, now, ledgerVars, delivered, proposals, lastCall, history>>

\* The engine receives a message: the messages of one socket arrive in the
\* order sent, those of different sockets in any order. A VOTE message is a
\* castBallot call.
Deliver(i) ==
    /\ i \in 1..Len(sent)
    /\ i \notin delivered
    /\ \A j \in 1..(i - 1) : sent[j].socket = sent[i].socket => j \in delivered
    /\ delivered' = delivered \cup {i}
    /\ LET message == sent[i].message
       IN  ballots' = IF message.type = "VOTE" /\ Accepts(message.vote.proposal, message.userId)
                      THEN castBallot(ballots, message.vote.proposal, message.userId,
                                      message.vote.choice)
                      ELSE ballots
    /\ UNCHANGED <<hiveVars, sent, now, ledgerVars, proposals, lastCall, history>>

(***************************************************************************)
(* The membership directory. The repository has no heartbeat and no sweep;  *)
(* both are modelled from section 4.2 of the specification, over the        *)
(* registrations of the code.                                              *)
(***************************************************************************)
\* The timeout a sweep is called with, and the grace window that follows it.
SweepTimeouts == {0}

GraceWindow == 1

\* heartbeat(identity): refreshes lastHeartbeat of a record that is not
\* Departed; UnknownAgent otherwise.
Heartbeat(u) ==
    /\ records[u] # <<>>
    /\ records[u][1].status # "Departed"
    /\ records' = [records EXCEPT ![u] = <<MembershipRecord>>]
    /\ UNCHANGED <<config, ws, hexCell, neighbors, calls, sockets, sent, now, ledgerVars,
                   engineVars, lastCall, history>>

\* The status sweep(now, timeout) leaves a record in.
Swept(record, timeout) ==
    IF record.status = "Active" /\ now - record.lastHeartbeat > timeout
    THEN [record EXCEPT !.status = "Unreachable"]
    ELSE IF record.status = "Unreachable"
            /\ now - record.lastHeartbeat > timeout + GraceWindow
    THEN [record EXCEPT !.status = "Departed"]
    ELSE record

\* sweep(now, timeout).
Sweep(timeout) ==
    /\ records' = [u \in Users |->
                     IF records[u] = <<>> THEN <<>> ELSE <<Swept(records[u][1], timeout)>>]
    /\ records' # records
    /\ UNCHANGED <<config, ws, hexCell, neighbors, calls, sockets, sent, now, ledgerVars,
                   engineVars, lastCall, history>>

(***************************************************************************)
(* Specifications.                                                         *)
(***************************************************************************)
\* The state after construction of the clients and ledgers of the users in U,
\* each client with the stakedMINE its constructor is given.
Built(U) ==
    /\ config \in {c \in [Users -> StakeInputs] : \A u \in Users \ U : c[u] = 0}
    /\ ws = [u \in Users |-> 0]
    /\ hexCell = [u \in Users |-> <<>>]
    /\ neighbors = [u \in Users |-> <<>>]
    /\ calls = [u \in Users |-> [claimPosition |-> 0, discoverNeighbors |-> 0]]
    /\ sockets = 0
    /\ records = [u \in Users |-> <<>>]
    /\ sent = <<>>
    /\ now = 0
    /\ balance = [u \in Users |->
                    [mine |-> <<"0">>, well |-> <<"0">>, staked |-> <<"0">>,
                     votingPower |-> <<"0">>]]
    /\ credited = [u \in Users |-> 0]
    /\ burned = [u \in Users |-> 0]
    /\ sessions = [u \in Users |-> 0]
    /\ ballots = [p \in Proposals |-> [u \in Users |-> <<>>]]
    /\ delivered = {}
    /\ lastCall = [op |-> "none"]

Constructed(U) == Built(U) /\ history = <<>>

NoProposals == [p \in Proposals |-> <<>>]

Init == Constructed(Users) /\ proposals = NoProposals

\* Clients of distinct identities registering in the mesh.
Next ==
    \E u \in Users :
        \/ ActivateBegin(u)
        \/ \E position \in Positions : ActivateRegister(u, position)
        \/ ActivateReturn(u)

Spec == Init /\ [][Next]_vars

\* One client that activates and votes.
Voters == {"alice"}

InitOne == Constructed(Voters) /\ proposals = NoProposals

\* The same, with every proposal already opened on the mesh's behalf.
InitVote ==
    /\ Constructed(Voters)
    /\ \E quorumThreshold \in QuorumInputs, closesAt \in ClosesAtInputs :
          proposals = [p \in Proposals |-> <<NewProposal(quorumThreshold, closesAt)>>]

\* The positions claimPosition yields in the runs of a single client.
DiagonalPositions == {p \in Positions : p.x = p.y}

NextVote ==
    \/ \E u \in Voters :
        \/ ActivateBegin(u)
        \/ \E position \in DiagonalPositions : ActivateRegister(u, position)
        \/ ActivateReturn(u)
        \/ \E vote \in Votes : SubmitVote(u, vote)
    \/ \E i \in 1..MaxSent : Deliver(i)

SpecVote == InitVote /\ [][NextVote]_vars

\* One client that activates and shares its state while time passes.
NextPheromone ==
    \/ \E u \in Voters :
        \/ ActivateBegin(u)
        \/ \E position \in DiagonalPositions : ActivateRegister(u, position)
        \/ ActivateReturn(u)
        \/ \E state \in PheromoneStates : SharePheromone(u, state)
    \/ Tick

SpecPheromone == InitOne /\ [][NextPheromone]_vars

\* One Pollen instance: its ledger and its hive client.
NextPollen ==
    \E u \in Voters :
        \/ \E valuePoints \in ValuePointInputs :
              /\ EarnMINE(u, "therapy_completion", Whole(valuePoints))
              /\ credited'[u] <= MaxMine
        \/ \E amount \in ConvertInputs : ConvertMineToWell(u, amount)
        \/ \E amount \in StakeAmountInputs, days \in LockPeriodInputs : StakeMINE(u, amount, days)
        \/ \E stakedMINE \in StakeInputs : ActivateHive(u, stakedMINE)
        \/ \E position \in DiagonalPositions : ActivateRegister(u, position)
        \/ ActivateReturn(u)

SpecPollen == InitOne /\ [][NextPollen]_vars

\* One ledger called with whole and fractional value points and with
\* amounts on both sides of its thresholds.
MaxLedgerMine == 1200

Quarter == [num |-> 1, den |-> 4]

LedgerValuePoints == {Whole(0), Whole(20), Whole(50), Quarter}

LedgerConvertInputs == {50, 100}

LedgerStakeInputs == {0, 100, 500}

LedgerLockInputs == {7, 30}

NextLedger ==
    \E u \in Voters :
        \/ \E valuePoints \in LedgerValuePoints :
              /\ EarnMINE(u, "therapy_completion", valuePoints)
              /\ credited'[u] <= MaxLedgerMine
        \/ \E amount \in LedgerConvertInputs : ConvertMineToWell(u, amount)
        \/ \E amount \in LedgerStakeInputs, days \in LedgerLockInputs : StakeMINE(u, amount, days)
        \/ IsCooperativeMember(u)
        \/ GetBalance(u)

SpecLedger == InitOne /\ [][NextLedger]_vars

\* One ledger called with amounts of either sign, while the credited MINE
\* and the stake stay within MaxMine of zero.
SignedValuePoints == {Whole(0 - 10), Whole(10)}

SignedAmounts == {0 - 100, 100}

NextSigned ==
    \E u \in Voters :
        \/ \E valuePoints \in SignedValuePoints :
              /\ EarnMINE(u, "hive_vote", valuePoints)
              /\ credited'[u] \in (0 - MaxMine)..MaxMine
        \/ \E amount \in SignedAmounts : ConvertMineToWell(u, amount)
        \/ \E amount \in SignedAmounts, days \in LedgerLockInputs :
              /\ StakeMINE(u, amount, days)
              /\ BigInt(balance'[u].staked) \in (0 - MaxMine)..MaxMine
        \/ GetBalance(u)

SpecSigned == InitOne /\ [][NextSigned]_vars

\* One ledger that earns while time passes.
NextEarn ==
    \/ \E u \in Voters :
        \/ \E valuePoints \in LedgerValuePoints :
              /\ EarnMINE(u, "therapy_completion", valuePoints)
              /\ credited'[u] <= MaxLedgerMine
        \/ GetBalance(u)
    \/ Tick

SpecEarn == InitOne /\ [][NextEarn]_vars

\* One Pollen instance whose only ledger operation is startTherapy.
MaxSessions == 3

NextTherapy ==
    \E u \in Voters :
        \/ \E type \in TherapyTypes : sessions[u] < MaxSessions /\ StartTherapy(u, type)
        \/ GetBalance(u)
        \/ \E stakedMINE \in StakeInputs : ActivateHive(u, stakedMINE)
        \/ \E position \in DiagonalPositions : ActivateRegister(u, position)
        \/ ActivateReturn(u)

SpecTherapy == InitOne /\ [][NextTherapy]_vars

\* A prediction engine called with histories of every length on both sides
\* of 14 and of 45 readings: a run of equal readings, then two weeks, each
\* of two kinds of reading.
RmssdInputs == {0, 35, 105}

Reading(rmssd) ==
    [hrv |-> [rmssd |-> rmssd],
     sleep |-> [quality |-> Whole(70)],
     mood |-> Whole(5)]

Readings == {Reading(Whole(rmssd)) : rmssd \in RmssdInputs} \cup {Reading(NaN)}

Repeat(reading, n) == [i \in 1..n |-> reading]

WeekSplits == {0, 3, 6}

Weeks ==
    {Repeat(a, k) \o Repeat(b, 7 - k) : a \in Readings, b \in Readings, k \in WeekSplits}

MaxPadding == 32

Paddings == {0, 1, MaxPadding - 1, MaxPadding}

Histories ==
    {Repeat(a, k) : a \in Readings, k \in {0, 1, 13}}
        \cup {Repeat(Reading(Whole(35)), k) \o first \o last :
                 k \in Paddings, first \in Weeks, last \in Weeks}

InitForecast ==
    /\ Built(Voters)
    /\ config = [u \in Users |-> 0]
    /\ proposals = NoProposals
    /\ history \in Histories

NextForecast ==
    \/ \E u \in Voters : Forecast(u) \/ GetForecast(u)
    \/ Tick

SpecForecast == InitForecast /\ [][NextForecast]_vars

\* Two members of equal weight, the proposals of the mesh and the clock.
MemberStake == 100

InitEngine ==
    /\ Constructed(Users)
    /\ config = [u \in Users |-> MemberStake]
    /\ proposals = NoProposals

\* The cell claimPosition yields in the runs of the engine.
OriginPositions == {p \in Positions : p.x = 0 /\ p.y = 0}

\* Each member activates its client once.
NextEngine ==
    \/ \E u \in Users :
        \/ ws[u] = 0 /\ ActivateBegin(u)
        \/ \E position \in OriginPositions : ActivateRegister(u, position)
        \/ ActivateReturn(u)
        \/ \E p \in Proposals, choice \in Choices : CastBallot(p, u, choice)
    \/ \E p \in Proposals, quorumThreshold \in QuorumInputs, closesAt \in ClosesAtInputs :
          OpenProposal(p, quorumThreshold, closesAt)
    \/ \E p \in Proposals : CloseProposal(p)
    \/ Tick

\* The engine evaluates the transition rule of a proposal once its closesAt
\* has come.
SpecEngine ==
    InitEngine /\ [][NextEngine]_vars /\ \A p \in Proposals : WF_vars(CloseProposal(p))

\* Clients that register while the directory sweeps.
InitMembership == Constructed(Users) /\ config = [u \in Users |-> 0] /\ proposals = NoProposals

NextMembership ==
    \/ \E u \in Users :
        \/ ActivateBegin(u)
        \/ \E position \in DiagonalPositions : ActivateRegister(u, position)
        \/ ActivateReturn(u)
        \/ Heartbeat(u)
    \/ \E timeout \in SweepTimeouts : Sweep(timeout)
    \/ TickUntil(MaxSweepClock)

SpecMembership == InitMembership /\ [][NextMembership]_vars

\* Two clients that activate once, share their state and look for similar
\* neighbors while time passes.
PatternInputs == {"low", "high"}

TrailStates == [wellnessScore : {49, 80}, activityLevel : {"rest"}, moodTrend : MoodInputs]

InitTrail == Constructed(Users) /\ config = [u \in Users |-> 0] /\ proposals = NoProposals

NextTrail ==
    \/ \E u \in Users :
        \/ ws[u] = 0 /\ ActivateBegin(u)
        \/ \E position \in OriginPositions : ActivateRegister(u, position)
        \/ ActivateReturn(u)
        \/ \E state \in TrailStates : SharePheromone(u, state)
        \/ \E targetPattern \in PatternInputs : PathfindSimilar(u, targetPattern)
    \/ Tick

SpecTrail == InitTrail /\ [][NextTrail]_vars

\* One Pollen instance whose caller passes weights the facade is to refuse.
UncheckedStakeInputs == {0 - 1, 100}

UncheckedVotes == [topic : Topics, proposal : Proposals, choice : {"for"}, weight : {0 - 1, 100}]

NextInput ==
    \E u \in Voters :
        \/ \E stakedMINE \in UncheckedStakeInputs : ActivateHive(u, stakedMINE)
        \/ \E position \in DiagonalPositions : ActivateRegister(u, position)
        \/ ActivateReturn(u)
        \/ \E vote \in UncheckedVotes : SubmitVote(u, vote)

SpecInput == InitOne /\ [][NextInput]_vars

(***************************************************************************)
(* The claims.                                                             *)
(***************************************************************************)
Registered(u) == hexCell[u] # <<>>

\* C1: no two Active registrations of distinct identities hold the same
\* position.
NoDoubleAllocation ==
    \A u, v \in Users :
        (u # v /\ Registered(u) /\ Registered(v))
            => hexCell[u][1].position # hexCell[v][1].position

\* C2: once an identity is registered, no further step of an activate changes
\* its coordinate or its connection.
ReRegisterIdempotent ==
    [][\A u \in Users :
        Registered(u) =>
            /\ hexCell'[u] # <<>>
            /\ hexCell'[u][1].position = hexCell[u][1].position
            /\ ws'[u] = ws[u]]_vars

\* C3: a submitVote on a client that holds no hex cell ends in an error and
\* hands nothing to the socket, and every VOTE message sent names a cell.
UnregisteredVoteRejected ==
    /\ (lastCall.op = "submitVote" /\ ~lastCall.activated)
            => (lastCall.outcome = "error" /\ lastCall.sends = 0)
    /\ \A i \in 1..Len(sent) :
            sent[i].message.type = "VOTE" => sent[i].message.hexCell # <<>>

\* C3, witness: a vote was refused on a client whose activate had already
\* opened the socket but not yet registered the cell.
UnregisteredVoteRejectedWitness ==
    /\ lastCall.op = "submitVote"
    /\ ~lastCall.activated
    /\ lastCall.socket # 0
    /\ lastCall.outcome = "error"

\* C4: a sharePheromone on a client that holds no hex cell ends in an error.
UnregisteredPheromoneRejected ==
    (lastCall.op = "sharePheromone" /\ ~lastCall.activated)
        => lastCall.outcome = "error"

\* C5: the weight of every vote that was sent is the votingPower of the
\* sender's hex cell.
VoteWeightIsVotingPower ==
    (lastCall.op = "submitVote" /\ lastCall.outcome = "ok")
        => lastCall.vote.weight = lastCall.cell[1].votingPower

\* C6: the votingPower of a user's hex cell is the staked balance of the
\* user's ledger.
CellVotingPowerIsStaked ==
    \A u \in Users :
        Registered(u) => hexCell[u][1].votingPower = BigInt(balance[u].staked)

\* C7: once the engine has received every message, the one ballot it counts
\* for the voter of the last vote cast on a proposal is that last vote.
LaterBallotReplacesEarlier ==
    (lastCall.op = "submitVote" /\ lastCall.outcome = "ok" /\ delivered = 1..Len(sent))
        => LET mine == {b \in CountedBallots(lastCall.vote.proposal) :
                            b.voter = lastCall.userId}
           IN  mine = {[voter |-> lastCall.userId, choice |-> lastCall.vote.choice]}

SameBuckets(s, t) ==
    /\ rangeBucket(s.wellnessScore) = rangeBucket(t.wellnessScore)
    /\ s.activityLevel = t.activityLevel
    /\ s.moodTrend = t.moodTrend

Untimed(message) == [message EXCEPT !.pheromone.timestamp = 0]

\* C8: the PHEROMONE message a client sent is, apart from its timestamp, the
\* message the same client would have sent for any other state of the same
\* buckets, and its id and data are those any other client would have sent.
PheromoneRevealsOnlyBuckets ==
    (lastCall.op = "sharePheromone" /\ lastCall.sends = 1)
        => LET message == sent[Len(sent)].message
           IN  \A other \in AllStates :
                 SameBuckets(lastCall.state, other) =>
                    /\ Untimed(PheromoneMessage(lastCall.cell, other, 0)) = Untimed(message)
                    /\ \A v \in Users :
                         LET theirs == PheromoneMessage(<<HexCell(v, [x |-> 0, y |-> 0], 0)>>,
                                                        other, 0)
                         IN  /\ theirs.pheromone.id = message.pheromone.id
                             /\ theirs.pheromone.data = message.pheromone.data

\* C8, witness: a registered client sent a PHEROMONE message for a score that
\* shares its bucket with a different score.
PheromoneRevealsOnlyBucketsWitness ==
    /\ lastCall.op = "sharePheromone"
    /\ lastCall.sends = 1
    /\ lastCall.activated
    /\ \E other \in AllStates :
          /\ SameBuckets(lastCall.state, other)
          /\ other.wellnessScore # lastCall.state.wellnessScore

\* C9: a client holds at most six neighbor records, each the record of a
\* registered agent.
NeighborsAreActiveMembers ==
    \A u \in Users :
        /\ Len(neighbors[u]) <= 6
        /\ \A i \in 1..Len(neighbors[u]) :
              \E v \in Users : v = neighbors[u][i].userId /\ Registered(v)

\* C10: if agent v is in the neighbor list of agent u, then u is in the
\* neighbor list of v.
AdjacencySymmetric ==
    \A u, v \in Users :
        (Registered(u) /\ Registered(v)
           /\ \E i \in 1..Len(neighbors[u]) : neighbors[u][i].userId = v)
        => \E j \in 1..Len(neighbors[v]) : neighbors[v][j].userId = u

Abs(n) == IF n < 0 THEN 0 - n ELSE n

\* The ring of an axial coordinate (q, r), here (x, y), around the origin.
RingRadius(c) == (Abs(c.x) + Abs(c.y) + Abs(c.x + c.y)) \div 2

\* The cells of rings 0 and 1: more cells than the mesh has agents.
NearCells == [x : (0 - 1)..1, y : (0 - 1)..1]

\* Smaller ring first, then ascending q, then ascending r.
AllocatedBefore(a, b) ==
    \/ RingRadius(a) < RingRadius(b)
    \/ /\ RingRadius(a) = RingRadius(b)
       /\ (a.x < b.x \/ (a.x = b.x /\ a.y < b.y))

NearestFreeCell(occupied) ==
    CHOOSE c \in NearCells \ occupied :
        \A d \in NearCells \ occupied : d = c \/ AllocatedBefore(c, d)

OccupiedByOthers(u) == {hexCell[v][1].position : v \in {w \in Users \ {u} : Registered(w)}}

\* C11: a first registration of an identity yields the free cell of the
\* smallest ring around the origin, ties broken by ascending q then ascending
\* r; the first agent of an empty mesh gets (0, 0).
AllocationDeterministic ==
    [][\A u \in Users :
        (hexCell[u] = <<>> /\ hexCell'[u] # <<>>)
            => hexCell'[u][1].position = NearestFreeCell(OccupiedByOthers(u))]_vars

\* C12: a negative voting weight is refused and leaves no trace: no client is
\* configured with it, no cell carries it, no VOTE message carries it, and the
\* submitVote that was given it ended in an error.
InvalidInputRejected ==
    /\ \A u \in Users :
          /\ config[u] >= 0
          /\ Registered(u) => hexCell[u][1].votingPower >= 0
    /\ \A i \in 1..Len(sent) :
          sent[i].message.type = "VOTE" => sent[i].message.vote.weight >= 0
    /\ (lastCall.op = "submitVote" /\ lastCall.vote.weight < 0)
          => lastCall.outcome = "error"

Terminal(p) == proposals[p] # <<>> /\ proposals[p][1].status # "Open"

\* The weight cast on a proposal, abstentions included.
TotalCast(p) == Tally(p).for + Tally(p).against + Tally(p).abstain

\* turnout < quorumThreshold, the threshold a percentage.
BelowQuorum(p) ==
    TotalCast(p) * 100 < proposals[p][1].quorumThreshold * proposals[p][1].totalActiveWeightAtOpen

\* C13: a closed proposal whose turnout is below its quorumThreshold is
\* Expired, whatever was cast for and against.
QuorumMissExpires ==
    \A p \in Proposals :
        (Terminal(p) /\ proposals[p][1].totalActiveWeightAtOpen > 0 /\ BelowQuorum(p))
            => proposals[p][1].status = "Expired"

\* C13, witness: a proposal expired although every ballot cast on it was for it.
QuorumMissExpiresWitness ==
    \E p \in Proposals :
        /\ Terminal(p)
        /\ proposals[p][1].totalActiveWeightAtOpen > 0
        /\ BelowQuorum(p)
        /\ Tally(p).for > Tally(p).against

\* C14: a closed proposal that met its quorum is Passed if more weight was
\* cast for than against and Rejected otherwise, a tie included; abstentions
\* count in the turnout only.
MajorityDecides ==
    \A p \in Proposals :
        (Terminal(p) /\ proposals[p][1].totalActiveWeightAtOpen > 0 /\ ~BelowQuorum(p))
            => proposals[p][1].status =
                    IF Tally(p).for > Tally(p).against THEN "Passed" ELSE "Rejected"

\* C14, witness: a proposal that met its quorum with as much weight for as
\* against was rejected.
MajorityDecidesWitness ==
    \E p \in Proposals :
        /\ Terminal(p)
        /\ ~BelowQuorum(p)
        /\ Tally(p).for > 0
        /\ Tally(p).for = Tally(p).against
        /\ proposals[p][1].status = "Rejected"

ProposalLifecycle ==
    /\ [][\A p \in Proposals :
            /\ proposals[p] # <<>> =>
                  /\ proposals'[p] # <<>>
                  /\ proposals'[p][1].status # proposals[p][1].status =>
                        /\ proposals[p][1].status = "Open"
                        /\ proposals'[p][1].status \in {"Passed", "Rejected", "Expired"}
            /\ Terminal(p) =>
                  /\ proposals'[p] = proposals[p]
                  /\ Tally(p)' = Tally(p)]_vars
    /\ \A p \in Proposals :
          (proposals[p] # <<>> /\ proposals[p][1].status = "Open"
             /\ now >= proposals[p][1].closesAt) ~> Terminal(p)

\* C16, witness: a proposal was closed with ballots cast on it.
ProposalLifecycleWitness ==
    \E p \in Proposals : Terminal(p) /\ TotalCast(p) > 0

StatusOf(u) == IF records[u] = <<>> THEN "None" ELSE records[u][1].status

\* C17: no step takes a record from Active to Departed, a record becomes
\* Departed only past the timeout and the grace window, and a registration is
\* never given the coordinate of another identity that holds it and is not
\* Departed.
TwoStageLiveness ==
    [][\A u \in Users :
        /\ StatusOf(u) = "Active" => StatusOf(u)' # "Departed"
        /\ (StatusOf(u) # "Departed" /\ StatusOf(u)' = "Departed")
              => now - records[u][1].lastHeartbeat > GraceWindow
        /\ \A v \in Users \ {u} :
              (hexCell'[u] # hexCell[u] /\ Registered(v) /\ StatusOf(v) # "Departed")
                  => hexCell'[u][1].position # hexCell[v][1].position]_vars

\* The client a message was sent by: the one that holds the socket.
SentBy(i) == CHOOSE u \in Users : ws[u] = sent[i].socket

\* C18: a similarity query returns the neighbors whose trail carries the
\* pattern and has not expired, and no others: another registered agent in
\* the neighbor list that emitted a matching trail at the very time of the
\* query (expired for no ttl) is in the result, and every record in the
\* result holds a matching trail.
LiveTrailsReturned ==
    lastCall.op = "pathfindSimilar" =>
        /\ \A i \in 1..Len(sent) :
              (/\ sent[i].message.type = "PHEROMONE"
               /\ sent[i].message.pheromone.data.wellnessRange = lastCall.pattern
               /\ sent[i].message.pheromone.timestamp = lastCall.time
               /\ SentBy(i) # lastCall.userId
               /\ sent[i].message.pheromone.hexCell # <<>>
               /\ \E k \in 1..Len(lastCall.neighbors) :
                     lastCall.neighbors[k].userId = SentBy(i))
              => \E k \in 1..Len(lastCall.result) : lastCall.result[k].userId = SentBy(i)
        /\ \A k \in 1..Len(lastCall.result) :
              /\ lastCall.result[k].lastPheromone # <<>>
              /\ lastCall.result[k].lastPheromone[1].data.wellnessRange = lastCall.pattern

\* C19: a conversion burns exactly 100 MINE for each WELL it mints: the
\* result it returns says so, and the MINE balance drops by 100 times the
\* rise of the WELL balance.
ConversionRatioExact ==
    [][\A u \in Users :
        balance'[u].well # balance[u].well =>
            /\ BigInt(balance[u].mine) - BigInt(balance'[u].mine)
                  = 100 * (BigInt(balance'[u].well) - BigInt(balance[u].well))
            /\ lastCall'.op = "convertMineToWell"
            /\ BigInt(lastCall'.result.mineBurned) = 100 * BigInt(lastCall'.result.wellReceived)]_vars

\* C20: a stake locked for more than 30 days adds its amount to votingPower,
\* a stake locked for less adds nothing, so that votingPower is the total
\* staked with a qualifying lock period.
VotingPowerCountsLongLocks ==
    [][\A u \in Users :
        balance'[u].staked # balance[u].staked =>
            BigInt(balance'[u].votingPower)
                = BigInt(balance[u].votingPower)
                    + (IF lastCall'.days > 30
                       THEN BigInt(balance'[u].staked) - BigInt(balance[u].staked)
                       ELSE 0)]_vars

\* C21: a successful earnMINE with v value points credits exactly 10 * v
\* MINE: the record it returns says so, the MINE balance rises by that much,
\* and well, staked and votingPower stay as they were.
EarnCreditsTenPerPoint ==
    [][\A u \in Users :
        (/\ lastCall'.op = "earnMINE"
         /\ lastCall'.outcome = "ok"
         /\ lastCall'.userId = u
         /\ <<lastCall, balance>>' # <<lastCall, balance>>)
        => LET v == lastCall'.valuePoints
           IN  /\ (10 * v.num) % v.den = 0
               /\ BigInt(lastCall'.result.mineEarned) = (10 * v.num) \div v.den
               /\ BigInt(balance'[u].mine) = BigInt(balance[u].mine) + ((10 * v.num) \div v.den)
               /\ balance'[u].well = balance[u].well
               /\ balance'[u].staked = balance[u].staked
               /\ balance'[u].votingPower = balance[u].votingPower]_vars

\* An earnMINE of 50 value points has just credited a ledger that already
\* holds WELL, a stake and voting power.
EarnCreditsTenPerPointWitness ==
    \E u \in Users :
        /\ lastCall.op = "earnMINE"
        /\ lastCall.outcome = "ok"
        /\ lastCall.userId = u
        /\ lastCall.valuePoints = Whole(50)
        /\ BigInt(balance[u].well) > 0
        /\ BigInt(balance[u].votingPower) > 0

\* C22: a therapy completion is worth 20 value points: every startTherapy
\* call raises the MINE balance by exactly 200, and a fresh instance that
\* has made n calls and no other ledger operation holds 200 * n MINE.
TherapyPaysTwoHundred ==
    /\ [](\A u \in Users : BigInt(balance[u].mine) = 200 * sessions[u])
    /\ [][\A u \in Users :
            sessions'[u] # sessions[u] =>
                /\ sessions'[u] = sessions[u] + 1
                /\ BigInt(balance'[u].mine) = BigInt(balance[u].mine) + 200]_vars

\* Two therapy sessions on an instance whose hive client has registered.
TherapyPaysTwoHundredWitness ==
    \E u \in Users :
        /\ sessions[u] = 2
        /\ balance[u].mine = <<"4", "0", "0">>
        /\ hexCell[u] # <<>>

\* C23: isCooperativeMember answers true exactly when the available MINE
\* plus the staked MINE is at least 1000, whatever the ledger has been
\* through.
MemberFromThousand ==
    \A u \in Users :
        LET total == BigInt(balance[u].mine) + BigInt(balance[u].staked)
        IN  /\ isCooperativeMember(balance[u]) <=> total >= 1000
            /\ (lastCall.op = "isCooperativeMember" /\ lastCall.userId = u)
                  => (lastCall.result <=> total >= 1000)

\* A ledger asked while it holds exactly 1000 MINE, half of it staked.
MemberFromThousandWitness ==
    \E u \in Users :
        /\ lastCall.op = "isCooperativeMember"
        /\ lastCall.userId = u
        /\ lastCall.result
        /\ balance[u].mine = <<"5", "0", "0">>
        /\ balance[u].staked = <<"5", "0", "0">>

\* C24: a ledger operation that throws (a conversion below the minimum of
\* 100 or above the balance, a stake above the balance, an earnMINE whose
\* amount is not an integer) leaves mine, well, staked and votingPower as
\* they were.
ThrowingLeavesBalance ==
    [][\A u \in Users :
        (/\ lastCall'.op \in {"earnMINE", "convertMineToWell", "stakeMINE"}
         /\ lastCall'.userId = u
         /\ lastCall'.outcome = "error")
        => balance'[u] = balance[u]]_vars

\* An earnMINE of a quarter of a value point has thrown on a ledger that
\* holds MINE, WELL and a stake.
ThrowingLeavesBalanceWitness ==
    \E u \in Users :
        /\ lastCall.op = "earnMINE"
        /\ lastCall.userId = u
        /\ lastCall.outcome = "error"
        /\ BigInt(balance[u].mine) > 0
        /\ BigInt(balance[u].well) > 0
        /\ BigInt(balance[u].staked) > 0

\* The wellnessRange the specification gives a score.
RangeOf(score, range) ==
    \/ score >= 80 /\ range = "high"
    \/ score >= 50 /\ score < 80 /\ range = "medium"
    \/ score < 50 /\ range = "low"

\* C25: rangeBucket maps a score of 80 or more to high, a score from 50 up
\* to but not including 80 to medium and a score below 50 to low, and the
\* wellnessRange of every PHEROMONE message is one of the three, the one of
\* the score that was shared.
BucketsAreThree ==
    /\ \A score \in AllScores : RangeOf(score, rangeBucket(score))
    /\ \A i \in 1..Len(sent) :
          sent[i].message.type = "PHEROMONE" =>
              sent[i].message.pheromone.data.wellnessRange \in {"high", "medium", "low"}
    /\ (lastCall.op = "sharePheromone" /\ lastCall.sends = 1)
          => RangeOf(lastCall.state.wellnessScore,
                     sent[Len(sent)].message.pheromone.data.wellnessRange)

\* A score of exactly 80 has been shared as high.
BucketsAreThreeWitness ==
    /\ lastCall.op = "sharePheromone"
    /\ lastCall.sends = 1
    /\ lastCall.state.wellnessScore = 80
    /\ sent[Len(sent)].message.pheromone.data.wellnessRange = "high"

\* C26: forecast returns exactly 7 daily values, each an integer from 0 to
\* 100, and a confidence from 0 to 1 that is at most 0.95; a history of
\* fewer than 14 readings gets seven 50s, the confidence 0.3 and the single
\* factor Insufficient data.
ForecastInRange ==
    lastCall.op = "forecast" =>
        LET result == lastCall.result
        IN  /\ Len(result.forecast) = 7
            /\ \A i \in 1..Len(result.forecast) :
                  LET day == result.forecast[i]
                  IN  /\ day.den # 0
                      /\ day.num % day.den = 0
                      /\ day.num \div day.den \in 0..100
            /\ result.confidence.den > 0
            /\ result.confidence.num >= 0
            /\ result.confidence.num * 100 <= 95 * result.confidence.den
            /\ Len(history) < 14 =>
                  /\ \A i \in 1..Len(result.forecast) : result.forecast[i] = Whole(50)
                  /\ result.confidence.num * 10 = 3 * result.confidence.den
                  /\ result.factors = <<"Insufficient data">>

\* C27: whatever successful earnMINE, convertMineToWell and stakeMINE calls
\* a ledger has made, with any integer arguments the methods accept, its
\* mine, well and staked balances are not negative.
BalancesNotNegative ==
    \A u \in Users :
        /\ BigInt(balance[u].mine) >= 0
        /\ BigInt(balance[u].well) >= 0
        /\ BigInt(balance[u].staked) >= 0

\* C28: MINE is conserved: the available MINE, the staked MINE and the MINE
\* the conversions have burned add up to the MINE earnMINE has credited.
MineConserved ==
    \A u \in Users :
        BigInt(balance[u].mine) + BigInt(balance[u].staked) + burned[u] = credited[u]

\* A ledger that holds available MINE and a stake and has burned MINE, after
\* a conversion.
MineConservedWitness ==
    \E u \in Users :
        /\ lastCall.op = "convertMineToWell"
        /\ lastCall.outcome = "ok"
        /\ BigInt(balance[u].mine) > 0
        /\ BigInt(balance[u].staked) > 0
        /\ burned[u] > 100
        /\ credited[u] >= 1000

\* C29: on a ledger whose operations all had amounts that are not negative,
\* the voting power is never more than the stake.
PowerWithinStake ==
    \A u \in Users : BigInt(balance[u].votingPower) <= BigInt(balance[u].staked)

\* A ledger with voting power that is less than its stake: a stake with a
\* long lock, then a stake with a short one.
PowerWithinStakeWitness ==
    \E u \in Users :
        /\ lastCall.op = "stakeMINE"
        /\ lastCall.outcome = "ok"
        /\ BigInt(balance[u].votingPower) > 0
        /\ BigInt(balance[u].votingPower) < BigInt(balance[u].staked)

\* The available MINE plus the staked MINE of a balance.
Holding(ledger) == BigInt(ledger.mine) + BigInt(ledger.staked)

\* C30: a successful stakeMINE leaves the sum of available and staked MINE,
\* the WELL balance and the answer of isCooperativeMember as they were; a
\* successful conversion lowers the sum by the MINE it burns, and so can
\* turn a member into a non-member.
StakeKeepsMembership ==
    [][\A u \in Users :
        (/\ lastCall'.userId = u
         /\ lastCall'.outcome = "ok"
         /\ <<lastCall, balance>>' # <<lastCall, balance>>)
        => /\ lastCall'.op = "stakeMINE" =>
                 /\ Holding(balance'[u]) = Holding(balance[u])
                 /\ balance'[u].well = balance[u].well
                 /\ isCooperativeMember(balance'[u]) <=> isCooperativeMember(balance[u])
           /\ lastCall'.op = "convertMineToWell" =>
                 /\ Holding(balance'[u]) = Holding(balance[u]) - lastCall'.amount
                 /\ lastCall'.amount > 0]_vars

\* A member has staked half of its 1000 MINE and is a member still.
StakeKeepsMembershipWitness ==
    \E u \in Users :
        /\ lastCall.op = "stakeMINE"
        /\ lastCall.outcome = "ok"
        /\ lastCall.amount = 500
        /\ balance[u].mine = <<"5", "0", "0">>
        /\ balance[u].staked = <<"5", "0", "0">>
        /\ isCooperativeMember(balance[u])

\* A conversion has turned a member into a non-member.
MemberLostByConversion ==
    \E u \in Users :
        /\ lastCall.op = "convertMineToWell"
        /\ lastCall.outcome = "ok"
        /\ ~isCooperativeMember(balance[u])
        /\ Holding(balance[u]) + lastCall.amount >= 1000

\* C31: the id of every EarningRecord earnMINE returns differs from the id
\* of every record the ledger returned before, also when two calls read the
\* same clock; stated here for a record and the one returned just before it.
EarningIdsDistinct ==
    [][(/\ lastCall.op = "earnMINE"
        /\ lastCall.outcome = "ok"
        /\ lastCall'.op = "earnMINE"
        /\ lastCall'.outcome = "ok"
        /\ lastCall'.userId = lastCall.userId
        /\ <<lastCall, balance>>' # <<lastCall, balance>>)
       => lastCall'.result.id # lastCall.result.id]_vars

\* C32: a client never holds more than one WebSocket that is not closed:
\* the sockets constructed and never closed are as many as the clients that
\* hold one, also after a second activate, sequential or overlapping.
OneSocketPerClient ==
    sockets <= Cardinality({u \in Users : ws[u] # 0})

====
